---- MODULE Spec2Model ----
(***************************************************************************)
(* NeuralMap3D (AutoFlowAI/web/static/js/dashboard.js, lines 366-496):     *)
(* a WebSocket delivers JSON frames; every frame is parsed and handed to   *)
(* updateNeuralMap, which tears the previous node/edge primitives down and *)
(* rebuilds them; animate() rotates the tracked meshes once per display    *)
(* refresh.  JavaScript runs handlers to completion, so each handler is    *)
(* one atomic action; an exception ends the handler where it is thrown and *)
(* keeps every effect made before it.                                      *)
(*                                                                         *)
(* Numbers of the wire format are in tenths (8 stands for 0.8), so a       *)
(* sphere radius activity*5+1 is activity*5+10 in tenths.  An angle is in  *)
(* units of 1/Turn of a full turn, and a position is kept in polar form    *)
(* [r, a] (the code's (cos(a)*r, sin(a)*r, 0)).                            *)
(***************************************************************************)
EXTENDS Integers, Sequences, FiniteSets, TLC

\* ---------------------------------------------------------------- bounds
MaxModules == 2
MaxFrames == 2
MaxTicks == 2
MaxToggles == 6

\* ------------------------------------------------------- JavaScript values
Undefined == [t |-> "undefined"]
NaN == [t |-> "NaN"]
Null == [t |-> "null"]
Num(v) == [t |-> "number", v |-> v]
Str(s) == [t |-> "string", s |-> s]
IsNum(x) == x.t = "number"

\* ------------------------------------------------------------ wire frames
Names == {"consciousness", "memory", "reasoning"}
Activities == {5, 15}
Scores == {-2, 8}

ModuleObj(n, a) == [t |-> "object", name |-> n, activity_level |-> Num(a)]
Entries == {Null} \cup {ModuleObj(n, a) : n \in Names, a \in Activities}

SeqsUpTo(S, n) == UNION {[1..k -> S] : k \in 0..n}
Arr(items) == [t |-> "array", items |-> items]
ModuleValues == {Undefined, Str("x")} \cup {Arr(s) : s \in SeqsUpTo(Entries, MaxModules)}

TextFrame == [kind |-> "text"]
NullFrame == [kind |-> "null"]
Obj(l, s, m) == [kind |-> "object", consciousness_level |-> l, awareness_score |-> s, modules |-> m]

\* every frame of the bounded wire domain
Messages ==
    {TextFrame, NullFrame}
    \cup {Obj(Str("aware"), s, m) : s \in {Num(v) : v \in Scores} \cup {Undefined},
                                     m \in ModuleValues}

\* representative frames used to build the layouts that precede a frame
Frames ==
    { TextFrame,
      NullFrame,
      Obj(Str("aware"), Num(-2), Undefined),
      Obj(Str("aware"), Num(8), Arr(<<ModuleObj("memory", 5), ModuleObj("reasoning", 15)>>)),
      Obj(Str("aware"), Num(8), Arr(<<ModuleObj("consciousness", 5)>>)),
      Obj(Str("aware"), Num(8), Arr(<<ModuleObj("memory", 5), ModuleObj("memory", 15)>>)),
      Obj(Str("aware"), Undefined, Arr(<<ModuleObj("memory", 5)>>)),
      Obj(Undefined, Num(8), Undefined),
      Obj(Str("aware"), Num(8), Arr(<<ModuleObj("memory", 5), Null>>)),
      Obj(Str("aware"), Num(8), Arr(<<ModuleObj("consciousness", 5), Null>>)),
      Obj(Str("aware"), Num(8), Str("x")) }

Parses(m) == m.kind # "text"

\* ---------------------------------------------------------------- state
VARIABLES
    scene,        \* THREE.Scene children that are node/edge primitives, in add order
    nodes,        \* this.nodes: Map key -> node record
    connections,  \* this.connections: ids of the tracked lines
    ticks,        \* number of animate() runs (the chain of animation frames)
    ws,           \* state of the one WebSocket: "connecting", "open", "closed"
    sockets,      \* number of WebSocket objects constructed
    sent,         \* frames the server has pushed on the connection
    inbox,        \* message events queued for ws.onmessage, in arrival order
    log,          \* history: the message events handled, in handling order,
                  \* each with the number of frames run before it
    scheduled,    \* animation-frame callbacks requested and not yet run or cancelled
    timers,       \* delays of the pending setTimeout callbacks
    stopped,      \* history: the owner has torn the visualizer down
    colorCall,    \* arguments of a direct getNodeColor call
    colorResult,  \* what that call returned, "pending" before it
    isListening,  \* FusionInterface: this.isListening
    recognition,  \* FusionInterface: this.recognition, Null or the recognizer
    started,      \* the recognizer is started: start() ran and no end event yet
    voiceLog      \* history: the toggleVoiceInput calls, in call order

vars == <<scene, nodes, connections, ticks, ws, sockets, sent, inbox, log,
          scheduled, timers, stopped, colorCall, colorResult,
          isListening, recognition, started, voiceLog>>

\* the state of the FusionInterface instance and its recognizer
voiceVars == <<isListening, recognition, started, voiceLog>>

\* what the handlers of NeuralMap3D never touch
aux == <<timers, stopped, colorCall, colorResult, voiceVars>>

\* ------------------------------------------------------ program constants
RADIUS == 20
ScaleFactor == 5
MinSize == 10

\* ------------------------------------------------------------ pure helpers
RECURSIVE Lcm1To(_, _)
Lcm1To(n, acc) ==
    IF n <= 1 THEN acc
    ELSE Lcm1To(n - 1, CHOOSE c \in acc..(acc * n) : c % acc = 0 /\ c % n = 0 /\
                         \A d \in acc..(acc * n) : (d % acc = 0 /\ d % n = 0) => c <= d)

\* a full turn (2*PI), divisible by every module count of the bounded domain
Turn == Lcm1To(MaxModules, 2)

\* a slip: the slot counted from 1 instead of forEach's index from 0
SlotAngleFromOne(index, length) == ((index + 1) * Turn) \div length

\* (index / modules.length) * Math.PI * 2, index counted from 0
SlotAngle(index, length) == (index * Turn) \div length

Origin == [r |-> 0, a |-> 0]
OnCircle(angle) == [r |-> RADIUS, a |-> angle]

\* activity * 5 + 1 in JavaScript arithmetic: undefined * 5 + 1 is NaN
SphereRadius(activity) ==
    IF IsNum(activity) THEN Num(activity.v * ScaleFactor + MinSize) ELSE NaN

ColorTable ==
    [consciousness |-> "0xff6b6b", module |-> "0x4ecdc4", agent |-> "0x45b7d1", memory |-> "0x96ceb4"]

\* property names every object literal inherits from Object.prototype; their
\* values are functions (an object for __proto__), all truthy
ObjectPrototype ==
    {"constructor", "toString", "toLocaleString", "valueOf", "hasOwnProperty",
     "isPrototypeOf", "propertyIsEnumerable", "__proto__"}
Inherited == "Object.prototype member"

\* colors[type] || 0xffffff: the lookup follows the prototype chain
getNodeColor(type, activity) ==
    IF type \in DOMAIN ColorTable THEN ColorTable[type]
    ELSE IF type \in ObjectPrototype THEN Inherited
    ELSE "0xffffff"

SceneIds(sc) == {sc[i].id : i \in DOMAIN sc}

\* a new object: an identity no primitive still in the scene has
FreshId(sc) == CHOOSE n \in 1..(Len(sc) + 1) : n \notin SceneIds(sc) /\
                   \A k \in 1..(Len(sc) + 1) : k \notin SceneIds(sc) => n <= k

MapSet(map, key, value) == [k \in (DOMAIN map) \cup {key} |-> IF k = key THEN value ELSE map[k]]

\* ------------------------------------------------- NeuralMap3D's methods
\* each works on st = [scene, nodes, connections] and returns the new st

createNode(st, position, activity, label, type) ==
    LET mesh == [kind |-> "mesh", id |-> FreshId(st.scene), position |-> position,
                 radius |-> SphereRadius(activity),
                 color |-> getNodeColor(type, activity),
                 emissiveIntensity |-> activity, rot |-> 0]
    IN [st |-> [st EXCEPT !.scene = Append(@, mesh)],
        node |-> [mesh |-> mesh.id, position |-> position, activity |-> activity,
                  label |-> label, type |-> type]]

\* a slip: the line's opacity taken from the module node's activity
createConnectionByActivity(st, node1, node2, strength) ==
    LET line == [kind |-> "line", id |-> FreshId(st.scene),
                 from |-> node1.position, to |-> node2.position, opacity |-> node2.activity]
    IN [st EXCEPT !.scene = Append(@, line), !.connections = Append(@, line.id)]

createConnection(st, node1, node2, strength) ==
    LET line == [kind |-> "line", id |-> FreshId(st.scene),
                 from |-> node1.position, to |-> node2.position, opacity |-> strength]
    IN [st EXCEPT !.scene = Append(@, line), !.connections = Append(@, line.id)]

\* a slip: the teardown empties the whole scene
clearNodesAll(st) == [scene |-> <<>>, nodes |-> <<>>, connections |-> <<>>]

clearNodes(st) ==
    LET meshes == {st.nodes[k].mesh : k \in DOMAIN st.nodes}
        lines == {st.connections[i] : i \in DOMAIN st.connections}
        Kept(p) == p.id \notin meshes \cup lines
    IN [scene |-> SelectSeq(st.scene, Kept), nodes |-> <<>>, connections |-> <<>>]

\* the body of modules.forEach from the entry at position i (1-based) on;
\* reading a property of a null entry throws
RECURSIVE ForEachModule(_, _, _, _, _)
ForEachModule(st, centralNode, items, awareness_score, i) ==
    IF i > Len(items) THEN [st |-> st, threw |-> FALSE]
    ELSE IF items[i] = Null THEN [st |-> st, threw |-> TRUE]
    ELSE LET module == items[i]
             angle == SlotAngle(i - 1, Len(items))
             made == createNode(st, OnCircle(angle), module.activity_level,
                                Str(module.name), "module")
             kept == [made.st EXCEPT !.nodes = MapSet(@, module.name, made.node)]
             tied == createConnection(kept, centralNode, made.node, awareness_score)
         IN ForEachModule(tied, centralNode, items, awareness_score, i + 1)

\* updateNeuralMap(systemData) for parsed JSON: destructuring null throws
\* after clearNodes; modules?.forEach throws on a value that is no array
updateNeuralMap(st, systemData) ==
    LET cleared == clearNodes(st)
    IN IF systemData.kind = "null" THEN [st |-> cleared, threw |-> TRUE]
       ELSE LET made == createNode(cleared, Origin, systemData.awareness_score,
                                   systemData.consciousness_level, "consciousness")
                central == [made.st EXCEPT !.nodes = MapSet(@, "consciousness", made.node)]
                modules == systemData.modules
            IN IF modules = Undefined THEN [st |-> central, threw |-> FALSE]
               ELSE IF modules.t # "array" THEN [st |-> central, threw |-> TRUE]
               ELSE ForEachModule(central, made.node, modules.items,
                                  systemData.awareness_score, 1)

Current == [scene |-> scene, nodes |-> nodes, connections |-> connections]

\* the children initialize() adds to the scene: the two lights
Lights ==
    << [kind |-> "light", id |-> 1, type |-> "AmbientLight", color |-> "0x404040"],
       [kind |-> "light", id |-> 2, type |-> "DirectionalLight", color |-> "0xffffff"] >>

\* ------------------------------------------------------------------ Init
\* the state the constructor leaves: an empty scene, the first animation
\* frame requested (ticks counts the frames run after the constructor's own
\* call of animate), one WebSocket connecting
Init ==
    /\ scene = Lights
    /\ nodes = <<>>
    /\ connections = <<>>
    /\ ticks = 0
    /\ ws = "connecting"
    /\ sockets = 1
    /\ sent = 0
    /\ inbox = <<>>
    /\ log = <<>>
    /\ scheduled = 1
    /\ timers = {}
    /\ stopped = FALSE
    /\ colorCall = [type |-> "consciousness", activity |-> Undefined]
    /\ colorResult = "pending"
    /\ isListening = FALSE
    /\ recognition = Null
    /\ started = FALSE
    /\ voiceLog = <<>>

\* --------------------------------------------------------------- actions
\* the connection is established
WsOpen ==
    /\ ws = "connecting"
    /\ ws' = "open"
    /\ UNCHANGED <<scene, nodes, connections, ticks, sockets, sent, inbox, log, scheduled>>
    /\ UNCHANGED aux

\* a slip: a close handler and an error handler that each open a new socket
WsCloseOpeningTwo ==
    /\ ws \in {"connecting", "open"}
    /\ ws' = "connecting"
    /\ sockets' = sockets + 2
    /\ UNCHANGED <<scene, nodes, connections, ticks, sent, inbox, log, scheduled>>
    /\ UNCHANGED aux

\* the connection fails or closes; the code registers no onclose or onerror
WsClose ==
    /\ ws \in {"connecting", "open"}
    /\ ws' = "closed"
    /\ UNCHANGED <<scene, nodes, connections, ticks, sockets, sent, inbox, log, scheduled>>
    /\ UNCHANGED aux

\* the server pushes a frame, which queues a message event.  The queue keeps
\* what the handler's control flow can depend on before it reads event.data:
\* the arrival number and whether the text is JSON; the data itself is drawn
\* when the handler runs
ServerSend ==
    /\ ws = "open"
    /\ sent < MaxFrames
    /\ \E parses \in BOOLEAN :
           inbox' = Append(inbox, [seq |-> sent + 1, parses |-> parses])
    /\ sent' = sent + 1
    /\ UNCHANGED <<scene, nodes, connections, ticks, ws, sockets, log, scheduled>>
    /\ UNCHANGED aux

\* a slip: an event whose data fails to parse stays queued and is handled again
HandleRetrying(m) ==
    LET ev == Head(inbox)
    IN /\ Parses(m) = ev.parses
       /\ IF ~Parses(m)
          THEN /\ log' = Append(log, [seq |-> ev.seq, data |-> m, tick |-> ticks,
                                      result |-> "SyntaxError"])
               /\ UNCHANGED <<scene, nodes, connections, inbox>>
          ELSE LET r == updateNeuralMap(Current, m)
               IN /\ inbox' = Tail(inbox)
                  /\ scene' = r.st.scene
                  /\ nodes' = r.st.nodes
                  /\ connections' = r.st.connections
                  /\ log' = Append(log, [seq |-> ev.seq, data |-> m, tick |-> ticks,
                                         result |-> IF r.threw THEN "TypeError" ELSE "applied"])
       /\ UNCHANGED <<ticks, ws, sockets, sent, scheduled>>
       /\ UNCHANGED aux

\* ws.onmessage for the oldest queued event, whose data is m
Handle(m) ==
    LET ev == Head(inbox)
    IN /\ Parses(m) = ev.parses
       /\ inbox' = Tail(inbox)
       /\ IF ~Parses(m)
          THEN /\ log' = Append(log, [seq |-> ev.seq, data |-> m, tick |-> ticks,
                                      result |-> "SyntaxError"])
               /\ UNCHANGED <<scene, nodes, connections>>
          ELSE LET r == updateNeuralMap(Current, m)
               IN /\ scene' = r.st.scene
                  /\ nodes' = r.st.nodes
                  /\ connections' = r.st.connections
                  /\ log' = Append(log, [seq |-> ev.seq, data |-> m, tick |-> ticks,
                                         result |-> IF r.threw THEN "TypeError" ELSE "applied"])
       /\ UNCHANGED <<ticks, ws, sockets, sent, scheduled>>
       /\ UNCHANGED aux

OnMessage ==
    /\ inbox # <<>>
    /\ \E m \in Frames : Handle(m)

\* the last frame of the bounded run ranges over the whole wire domain
OnMessageWide ==
    /\ inbox # <<>>
    /\ \E m \in (IF Len(log) + 1 < MaxFrames THEN Frames ELSE Messages) : Handle(m)

\* a slip: a frame that requests two successors
AnimateTwice ==
    /\ scheduled > 0
    /\ ticks < MaxTicks
    /\ ticks' = ticks + 1
    /\ scheduled' = (scheduled - 1) + 2
    /\ UNCHANGED <<scene, nodes, connections, ws, sockets, sent, inbox, log>>
    /\ UNCHANGED aux

\* a slip: a frame that requests no successor
AnimateOnce ==
    /\ scheduled > 0
    /\ ticks < MaxTicks
    /\ ticks' = ticks + 1
    /\ scheduled' = scheduled - 1
    /\ UNCHANGED <<scene, nodes, connections, ws, sockets, sent, inbox, log>>
    /\ UNCHANGED aux

\* one animation frame: request the next, rotate the tracked meshes, render
Animate ==
    /\ scheduled > 0
    /\ ticks < MaxTicks
    /\ ticks' = ticks + 1
    /\ scheduled' = (scheduled - 1) + 1
    /\ LET tracked == {nodes[k].mesh : k \in DOMAIN nodes}
       IN scene' = [i \in DOMAIN scene |->
                       IF scene[i].id \in tracked
                       THEN [scene[i] EXCEPT !.rot = @ + 1] ELSE scene[i]]
    /\ UNCHANGED <<nodes, connections, ws, sockets, sent, inbox, log>>
    /\ UNCHANGED aux

Next == WsOpen \/ WsClose \/ ServerSend \/ OnMessage \/ Animate

Spec == Init /\ [][Next]_vars

WideNext == WsOpen \/ ServerSend \/ OnMessageWide

WideSpec == Init /\ [][WideNext]_vars

\* The class has no stop, disconnect or dispose.  This is the teardown its
\* owner can perform with what the instance exposes (window.neuralMap): cancel
\* the frame request kept in animationId and call clearNodes.  The WebSocket
\* is a local constant of startRealtimeUpdates, so nothing can close it.
OwnerStop ==
    /\ scheduled' = 0
    /\ LET c == clearNodes(Current)
       IN /\ scene' = c.scene
          /\ nodes' = c.nodes
          /\ connections' = c.connections
    /\ stopped' = TRUE
    /\ UNCHANGED <<ticks, ws, sockets, sent, inbox, log, timers, colorCall, colorResult>>
    /\ UNCHANGED voiceVars

TeardownNext == Next \/ OwnerStop

TeardownSpec == Init /\ [][TeardownNext]_vars

\* getNodeColor called directly, on type strings and activity values
ColorTypes ==
    {"consciousness", "module", "agent", "memory", "Module", "", "node",
     "constructor", "toString", "__proto__"}
ColorActivities == {Undefined, NaN, Num(-2), Num(5), Num(8), Num(15)}

ColorInit ==
    /\ scene = Lights
    /\ nodes = <<>>
    /\ connections = <<>>
    /\ ticks = 0
    /\ ws = "connecting"
    /\ sockets = 1
    /\ sent = 0
    /\ inbox = <<>>
    /\ log = <<>>
    /\ scheduled = 1
    /\ timers = {}
    /\ stopped = FALSE
    /\ colorCall \in [type : ColorTypes, activity : ColorActivities]
    /\ colorResult = "pending"
    /\ isListening = FALSE
    /\ recognition = Null
    /\ started = FALSE
    /\ voiceLog = <<>>

ColorApply ==
    /\ colorResult = "pending"
    /\ colorResult' = getNodeColor(colorCall.type, colorCall.activity)
    /\ UNCHANGED <<scene, nodes, connections, ticks, ws, sockets, sent, inbox, log,
                   scheduled, timers, stopped, colorCall>>
    /\ UNCHANGED voiceVars

ColorSpec == ColorInit /\ [][ColorApply]_vars

\* ------------------------------------------------------ FusionInterface
\* the recognizer setupVoiceRecognition builds
Recognizer == [t |-> "SpeechRecognition", continuous |-> TRUE, interimResults |-> TRUE]

\* what a toggleVoiceInput call can observe and change
VoiceState == [isListening |-> isListening, recognition |-> recognition # Null,
               started |-> started]

\* initialize() calls setupVoiceRecognition: without webkitSpeechRecognition in
\* window it returns early, otherwise it builds the recognizer.  The page's
\* load handler only constructs the instance; initialize is up to its owner
\* and is taken to build the recognizer at most once.
setupVoiceRecognition ==
    /\ recognition = Null
    /\ \E supported \in BOOLEAN :
           recognition' = IF supported THEN Recognizer ELSE Null
    /\ UNCHANGED <<isListening, started, voiceLog>>
    /\ UNCHANGED <<scene, nodes, connections, ticks, ws, sockets, sent, inbox, log,
                   scheduled, timers, stopped, colorCall, colorResult>>

\* a click on the voice button.  recognition.start() throws InvalidStateError
\* while the recognizer is started, and then the assignment after it is not
\* reached; recognition.stop() never throws and the recognizer stays started
\* until its end event
toggleVoiceInput ==
    /\ Len(voiceLog) < MaxToggles
    /\ IF recognition = Null
       THEN /\ voiceLog' = Append(voiceLog, [before |-> VoiceState, call |-> "none",
                                              threw |-> FALSE, after |-> VoiceState])
            /\ UNCHANGED <<isListening, started>>
       ELSE IF isListening
       THEN /\ isListening' = FALSE
            /\ UNCHANGED started
            /\ voiceLog' = Append(voiceLog,
                   [before |-> VoiceState, call |-> "stop", threw |-> FALSE,
                    after |-> [VoiceState EXCEPT !.isListening = FALSE]])
       ELSE IF started
       THEN /\ voiceLog' = Append(voiceLog, [before |-> VoiceState, call |-> "start",
                                              threw |-> TRUE, after |-> VoiceState])
            /\ UNCHANGED <<isListening, started>>
       ELSE /\ isListening' = TRUE
            /\ started' = TRUE
            /\ voiceLog' = Append(voiceLog,
                   [before |-> VoiceState, call |-> "start", threw |-> FALSE,
                    after |-> [VoiceState EXCEPT !.isListening = TRUE, !.started = TRUE]])
    /\ UNCHANGED recognition
    /\ UNCHANGED <<scene, nodes, connections, ticks, ws, sockets, sent, inbox, log,
                   scheduled, timers, stopped, colorCall, colorResult>>

\* the recognizer's end event: after stop(), or on its own (an error, the
\* service ending the session).  The code registers onresult only, so nothing
\* of the instance changes
RecognitionEnd ==
    /\ started
    /\ started' = FALSE
    /\ UNCHANGED <<isListening, recognition, voiceLog>>
    /\ UNCHANGED <<scene, nodes, connections, ticks, ws, sockets, sent, inbox, log,
                   scheduled, timers, stopped, colorCall, colorResult>>

VoiceNext == setupVoiceRecognition \/ toggleVoiceInput \/ RecognitionEnd

VoiceSpec == Init /\ [][VoiceNext]_vars

\* the event loop keeps running queued handlers and animation frames; whether
\* a connection opens, stays open or carries frames is up to the network
FairSpec == Spec /\ WF_vars(OnMessage) /\ WF_vars(Animate)

\* ------------------------------------------------ vocabulary of the claims
Last == log[Len(log)]

\* a snapshot as the data model describes it: both required fields present,
\* modules absent or a sequence of module objects with pairwise distinct names
Valid(m) ==
    /\ m.kind = "object"
    /\ m.consciousness_level # Undefined
    /\ m.awareness_score # Undefined
    /\ \/ m.modules = Undefined
       \/ /\ m.modules.t = "array"
          /\ \A i \in DOMAIN m.modules.items : m.modules.items[i] # Null
          /\ \A i, j \in DOMAIN m.modules.items :
                 m.modules.items[i].name = m.modules.items[j].name => i = j

MissingRequired(m) ==
    /\ m.kind = "object"
    /\ (m.consciousness_level = Undefined \/ m.awareness_score = Undefined)

\* N: the number of modules a parsed object carries
ModuleCount(m) ==
    IF m.modules = Undefined THEN 0
    ELSE IF m.modules.t = "array" THEN Len(m.modules.items) ELSE 0

Count(sc, kind) == Cardinality({i \in DOMAIN sc : sc[i].kind = kind})

Clamp(v) == IF v < 0 THEN 0 ELSE IF v > 10 THEN 10 ELSE v

MeshOf(id) == scene[CHOOSE i \in DOMAIN scene : scene[i].id = id]

\* a scene without object identities and idle rotation
Look(p) ==
    IF p.kind = "mesh"
    THEN [kind |-> "mesh", position |-> p.position, radius |-> p.radius,
          color |-> p.color, emissiveIntensity |-> p.emissiveIntensity]
    ELSE IF p.kind = "line"
    THEN [kind |-> "line", from |-> p.from, to |-> p.to, opacity |-> p.opacity]
    ELSE [kind |-> "light", type |-> p.type, color |-> p.color]
View(sc) == [i \in DOMAIN sc |-> Look(sc[i])]
NodeView(map) ==
    [k \in DOMAIN map |-> [position |-> map[k].position, activity |-> map[k].activity,
                           label |-> map[k].label, type |-> map[k].type]]

EmptyScene == [scene |-> Lights, nodes |-> <<>>, connections |-> <<>>]

\* the layout of snapshot m alone
LayoutOf(m) == updateNeuralMap(EmptyScene, m).st

\* the most recently applied valid snapshot, as a set of at most one frame
ValidApplied == {i \in DOMAIN log : Valid(log[i].data)}
LastValid ==
    IF ValidApplied = {} THEN {}
    ELSE {log[CHOOSE i \in ValidApplied : \A j \in ValidApplied : j <= i].data}

\* ----------------------------------------------------------------- claims

\* C1: after valid snapshots only, applied one after another, the scene holds
\* N+1 node primitives and N edge primitives, N the module count of the last
\* snapshot, never more.
C1_Accounting ==
    (log # <<>> /\ \A i \in DOMAIN log : Valid(log[i].data))
        => /\ Count(scene, "mesh") = ModuleCount(Last.data) + 1
           /\ Count(scene, "line") = ModuleCount(Last.data)

\* C2: right after a valid snapshot with N modules is applied, N+1 nodes are
\* tracked: one of kind consciousness at the origin with activity =
\* awareness score and label = consciousness level, and N of kind module.
C2_TrackedNodes ==
    (log # <<>> /\ Valid(Last.data))
        => /\ Cardinality(DOMAIN nodes) = ModuleCount(Last.data) + 1
           /\ Cardinality({k \in DOMAIN nodes : nodes[k].type = "module"})
                  = ModuleCount(Last.data)
           /\ \E k \in DOMAIN nodes :
                  /\ nodes[k].type = "consciousness"
                  /\ nodes[k].position = Origin
                  /\ nodes[k].activity = Last.data.awareness_score
                  /\ nodes[k].label = Last.data.consciousness_level
                  /\ \A j \in DOMAIN nodes : nodes[j].type = "consciousness" => j = k

\* C3: handling a snapshot that lacks consciousness level or awareness score
\* leaves the nodes and edges of the scene as they were.
C3_RejectMissing ==
    [][(Len(log') = Len(log) + 1 /\ MissingRequired(log'[Len(log')].data))
          => (scene' = scene /\ nodes' = nodes /\ connections' = connections)]_vars

\* C4: node size and emissive intensity derive from the clamped activity
\* max(0, min(1, v)), and edge opacity from the clamped awareness score.
C4_Clamped ==
    /\ \A k \in DOMAIN nodes :
           IsNum(nodes[k].activity)
               => /\ MeshOf(nodes[k].mesh).radius
                         = Num(Clamp(nodes[k].activity.v) * ScaleFactor + MinSize)
                  /\ MeshOf(nodes[k].mesh).emissiveIntensity
                         = Num(Clamp(nodes[k].activity.v))
    /\ \A i \in DOMAIN scene :
           (scene[i].kind = "line" /\ IsNum(scene[i].opacity))
               => scene[i].opacity = Num(Clamp(scene[i].opacity.v))

\* C5: every render tick observes exactly the complete layout of the most
\* recently applied valid snapshot, or the empty scene before the first one.
C5_TickSeesLayout ==
    [][(ticks' = ticks + 1)
          => \/ LastValid = {} /\ scene = Lights
             \/ \E m \in LastValid : View(scene) = View(LayoutOf(m).scene)]_vars

\* C6: after a snapshot with N modules is applied, the i-th module of the
\* snapshot's own order (i from 0) sits on the circle of the fixed radius at
\* i/N of a full turn, whatever its name or activity.
C6_RadialSlots ==
    (log # <<>> /\ Last.result = "applied" /\ ModuleCount(Last.data) > 0)
        => LET items == Last.data.modules.items
               n == Len(items)
               base == Len(scene) - 2 * n
           IN \A i \in 1..n :
                  LET mesh == scene[base + 2 * i - 1]
                  IN /\ mesh.kind = "mesh"
                     /\ mesh.emissiveIntensity = items[i].activity_level
                     /\ mesh.position.r = RADIUS
                     /\ mesh.position.a * n = (i - 1) * Turn
                     /\ nodes[items[i].name].type = "module"

C6_Witness ==
    /\ log # <<>>
    /\ Last.result = "applied"
    /\ Last.data.modules = Arr(<<ModuleObj("reasoning", 15), ModuleObj("memory", 5)>>)
    /\ nodes["reasoning"].position = [r |-> RADIUS, a |-> 0]
    /\ nodes["memory"].position.a * 2 = Turn

\* C7: after a snapshot with N modules is applied there are exactly N edges,
\* the i-th from the consciousness node to the i-th module node, all of
\* strength equal to the snapshot's awareness score.
C7_Edges ==
    (log # <<>> /\ Last.result = "applied")
        => LET n == ModuleCount(Last.data)
               base == Len(scene) - 2 * n
           IN /\ Len(connections) = n
              /\ Count(scene, "line") = n
              /\ \A i \in 1..n :
                     LET line == scene[base + 2 * i]
                     IN /\ line.kind = "line"
                        /\ connections[i] = line.id
                        /\ line.from = scene[base].position
                        /\ scene[base].color = ColorTable["consciousness"]
                        /\ line.to = scene[base + 2 * i - 1].position
                        /\ line.opacity = Last.data.awareness_score
              /\ \A i, j \in 1..n :
                     scene[base + 2 * i].to = scene[base + 2 * j].to => i = j

C7_Witness ==
    /\ log # <<>>
    /\ Last.result = "applied"
    /\ ModuleCount(Last.data) = 2
    /\ Last.data.awareness_score = Num(8)
    /\ Len(connections) = 2
    /\ \A i \in DOMAIN scene : scene[i].kind = "line" => scene[i].opacity = Num(8)

C9_ExactlyOnceInOrder ==
    [i \in DOMAIN log |-> log[i].seq] \o [i \in DOMAIN inbox |-> inbox[i].seq]
        = [i \in 1..sent |-> i]

C9_Witness ==
    /\ Len(log) = 2
    /\ log[1].result = "SyntaxError"
    /\ log[2].result = "applied"
    /\ log[2].seq = 2

\* C10: once the connection has closed, a new connection attempt follows.
C10_Reconnects == (ws = "closed") ~> (ws # "closed" \/ sockets > 1)

\* shapes the decoder is to refuse: no JSON, no object, a required field
\* missing, modules that is no sequence, a module entry that is no object
Malformed(m) ==
    \/ m.kind \in {"text", "null"}
    \/ MissingRequired(m)
    \/ /\ m.modules # Undefined
       /\ \/ m.modules.t # "array"
          \/ \E i \in DOMAIN m.modules.items : m.modules.items[i] = Null

TrackedIds == {nodes[k].mesh : k \in DOMAIN nodes} \cup {connections[i] : i \in DOMAIN connections}

\* connections constructed and not known closed
InFlight == sockets - (IF ws = "closed" THEN 1 ELSE 0)

\* C11: at most one connection attempt or open connection is in flight.
C11_OneConnection == InFlight <= 1

C11_Witness ==
    /\ ws = "closed"
    /\ sent > 0
    /\ sockets = 1

\* C12: after a failure a reconnect is pending behind a backoff delay (t0,
\* doubling up to a maximum, reset on success).
C12_BackoffScheduled == (ws = "closed") => (\E d \in timers : d > 0)

\* C13: once the visualizer is stopped no render tick runs, no snapshot
\* callback or connection attempt occurs, and the scene holds no node or
\* edge primitive.
C13_StopIsFinal ==
    [][stopped => /\ ticks' = ticks
                  /\ log' = log
                  /\ sockets' = sockets
                  /\ Count(scene', "mesh") = 0
                  /\ Count(scene', "line") = 0]_vars

\* C14: at most one render tick is scheduled at any time.
C14_OneTickChain == scheduled <= 1

C14_Witness ==
    /\ ticks > 1
    /\ log # <<>>
    /\ scheduled = 1

\* C15: while the loop runs, the next tick always comes (up to the bound on
\* ticks), with or without snapshots, open or closed connection, failed or
\* successful handlers.
C15_TicksProgress == \A n \in 0..(MaxTicks - 1) : (ticks = n) ~> (ticks > n)

C15_Witness ==
    /\ ticks = MaxTicks
    /\ ws = "closed"
    /\ log # <<>>
    /\ Last.result = "TypeError"

\* C16: clearNodes in any reachable state leaves no node or edge primitive in
\* the scene and empty tracking collections, and a second call changes nothing.
C16_ClearEmpties ==
    LET c == clearNodes(Current)
    IN /\ Count(c.scene, "mesh") = 0
       /\ Count(c.scene, "line") = 0
       /\ c.nodes = <<>>
       /\ c.connections = <<>>
       /\ clearNodes(c) = c

\* C17: a valid snapshot that follows a malformed message is applied in full
\* and the scene is then that snapshot's layout.
C17_NextValidApplies ==
    (Len(log) >= 2 /\ Malformed(log[Len(log) - 1].data) /\ Valid(Last.data))
        => /\ Last.result = "applied"
           /\ View(scene) = View(LayoutOf(Last.data).scene)

\* C18: every node or edge primitive in the scene is tracked by the nodes map
\* or the connections list.
C18_AllTracked ==
    \A i \in DOMAIN scene :
        scene[i].kind \in {"mesh", "line"} => scene[i].id \in TrackedIds

\* C19: the lights initialize() added stay in the scene, unchanged and not
\* duplicated, through every snapshot application and teardown.
C19_ContainerKept ==
    /\ Len(scene) >= Len(Lights)
    /\ SubSeq(scene, 1, Len(Lights)) = Lights
    /\ Count(scene, "light") = Len(Lights)

C19_Witness ==
    /\ Len(log) = 2
    /\ log[1].result = "applied"
    /\ log[2].result = "applied"
    /\ Count(scene, "mesh") > 0
    /\ SubSeq(scene, 1, Len(Lights)) = Lights

\* C20: getNodeColor returns the table's color for a type in the table and
\* the fallback color for every other type string.
C20_ColorLookup ==
    colorResult # "pending"
        => colorResult = (IF colorCall.type \in DOMAIN ColorTable
                          THEN ColorTable[colorCall.type] ELSE "0xffffff")

\* the handled events that reached updateNeuralMap, and the frames run since
\* the latest of them
Applications == {i \in DOMAIN log : log[i].result # "SyntaxError"}
TicksSinceApplication ==
    ticks - log[CHOOSE i \in Applications : \A j \in Applications : j <= i].tick

\* C21: at any time the accumulated rotation of every node primitive, counted
\* in steps of animate, equals the number of frames run since the most recent
\* call of updateNeuralMap.
C21_RotationSinceApplication ==
    Applications # {}
        => \A i \in DOMAIN scene :
               scene[i].kind = "mesh" => scene[i].rot = TicksSinceApplication

\* the recognizer calls issued so far, in order
RecognizerCalls == SelectSeq(voiceLog, LAMBDA e : e.call # "none")

\* C22: isListening only with a recognizer; a toggle without a recognizer
\* changes nothing; the recognizer calls alternate start, stop, start, ...;
\* and two consecutive toggles restore isListening.
C22_TogglesAlternate ==
    /\ isListening => recognition # Null
    /\ \A i \in DOMAIN voiceLog :
           ~voiceLog[i].before.recognition
               => (voiceLog[i].call = "none" /\ voiceLog[i].after = voiceLog[i].before)
    /\ \A i \in DOMAIN RecognizerCalls :
           RecognizerCalls[i].call = (IF i % 2 = 1 THEN "start" ELSE "stop")
    /\ \A i \in DOMAIN voiceLog :
           (i + 1 \in DOMAIN voiceLog
              /\ voiceLog[i].before.recognition = voiceLog[i + 1].before.recognition)
               => voiceLog[i + 1].after.isListening = voiceLog[i].before.isListening

====
